---------------------------- MODULE Spec2Model ----------------------------
(***************************************************************************)
(* Model of collector/evcc_collector.py: the EVCC collector (fetch,        *)
(* transform, deliver), the single-slot cache with its HTTP handler, and   *)
(* the run loop of main().                                                 *)
(*                                                                         *)
(* Python dicts are functions whose DOMAIN is the set of keys present;     *)
(* d.get(k, default) is Get(d, k, default).  Python None is the record     *)
(* None.  A value that raised is a record with raised = TRUE.              *)
(***************************************************************************)
EXTENDS Integers, Sequences, FiniteSets, TLC

VARIABLES
    args,        \* parsed command line / config file (main, lines 557-607)
    pc,          \* position of the main thread
    exit_code,   \* sys.exit status, -1 while the process runs
    exit_cause,  \* which sys.exit (or uncaught exception) ended the process
    clock,       \* wall clock, in collection ticks
    payload,     \* run_collection's local payload
    cycle,       \* what the current cycle did: fetched, posts, printed, ...
    serve_data,  \* _serve_data
    lock_main,   \* main thread is inside "with _serve_lock"
    lock_srv,    \* server thread is inside "with _serve_lock"
    server_up,   \* start_server has run
    spc,         \* position of the HTTP server thread
    path,        \* self.path of the request being handled
    data,        \* do_GET's local data
    endpoints,   \* do_GET's local endpoints
    response,    \* the response written to the client
    collected,   \* history: payload of the last collect() that returned
    stored,      \* history: argument of the last store_payload that finished
    observed,    \* history: newest last_updated a 200 response has carried
    fetches,     \* history: number of GETs of the status endpoint (capped)
    call,        \* arguments of a pure function under test
    result       \* its return value

vars == << args, pc, exit_code, exit_cause, clock, payload, cycle, serve_data,
           lock_main, lock_srv, server_up, spc, path, data, endpoints,
           response, collected, stored, observed, fetches, call, result >>

procVars == << args, pc, exit_code, exit_cause, clock, payload, cycle,
               serve_data, lock_main, lock_srv, server_up, spc, path, data,
               endpoints, response, collected, stored, observed, fetches >>

---------------------------------------------------------------------------
(* Bounds *)

\* Longest loadpoints list of a RawState, and the range of max_loadpoints
\* around it.
MaxLen == 3

\* The clock stops advancing at MaxClock (later cycles carry that stamp).
MaxClock == 2

\* The fetch counter saturates here.
MaxFetches == 2

\* Numbers are fixed-point: the integer q stands for q / Resolution, so
\* halves and quarters (ties and non-ties of rounding) are values.
Resolution == 4

\* Largest power magnitude, in watts, format_power is applied to.
MaxWatts == 1002

---------------------------------------------------------------------------
(* Python values *)

None == [t |-> "None"]

EmptyDict == << >>

Get(d, k, default) == IF k \in DOMAIN d THEN d[k] ELSE default

\* d[k] = v on a dict
DictSet(d, k, v) == [x \in (DOMAIN d) \cup {k} |-> IF x = k THEN v ELSE d[x]]

Opt(S) == {<< >>} \cup {<<v>> : v \in S}

\* the dict {k: o[1]} when the field is present, {} when it is absent
Field(k, o) == IF o = << >> THEN EmptyDict ELSE k :> o[1]

Min(a, b) == IF a <= b THEN a ELSE b

Max(a, b) == IF a >= b THEN a ELSE b

\* What a call produces: a value, or an exception that propagates
Returned(v) == [raised |-> FALSE, exc |-> "none", value |-> v]

Raised(e) == [raised |-> TRUE, exc |-> e, value |-> None]

\* s[:m]
PySliceTo(s, m) ==
    IF m >= 0 THEN SubSeq(s, 1, Min(m, Len(s)))
    ELSE SubSeq(s, 1, Max(Len(s) + m, 0))

---------------------------------------------------------------------------
(* Numbers and EVCCCollector.format_power *)

\* the number n as a fixed-point value
Num(n) == n * Resolution

Abs(x) == IF x < 0 THEN 0 - x ELSE x

\* The integer nearest to num / den (den > 0); on a tie the even one when
\* the quotient is exact in binary, else whichever side the double nearest
\* to the quotient lies (tie_up).
RoundNearest(num, den, exact, tie_up) ==
    LET f == num \div den
        r == num % den
    IN  IF 2 * r < den THEN f
        ELSE IF 2 * r > den THEN f + 1
        ELSE IF exact THEN (IF f % 2 = 0 THEN f ELSE f + 1)
        ELSE IF tie_up THEN f + 1 ELSE f

\* round(x): Python 3 rounds a float half to even
PyRound(q) == RoundNearest(q, Resolution, TRUE, FALSE)

\* One decimal of x / 1000, in tenths: f"{x / 1000:.1f}" and
\* round(x / 1000, 1) both round the double x / 1000 correctly.
TenthsOfThousandth(q, tie_up) == RoundNearest(q, 100 * Resolution, FALSE, tie_up)

\* A formatted number: f"{whole} W", or f"{whole}.{decimals[1]} kW".
PowerText(whole, decimals, suffix) ==
    [whole |-> whole, decimals |-> decimals, suffix |-> suffix]

WattsText(w) == PowerText(PyRound(w), << >>, " W")

KilowattsText(w, tie_up) ==
    LET t == TenthsOfThousandth(w, tie_up)
    IN  PowerText(t \div 10, <<t % 10>>, " kW")

\* Mutation: "w = watts if watts else 0", the abs() forgotten
FormatPowerSigned(watts, unit, tie_up) ==
    LET w == IF watts = << >> \/ watts[1] = 0 THEN 0 ELSE watts[1]
    IN  IF unit = "kW" THEN KilowattsText(w, tie_up)
        ELSE IF unit = "W" THEN WattsText(w)
        ELSE IF w >= Num(1000) THEN KilowattsText(w, tie_up)
        ELSE WattsText(w)

\* format_power(watts, unit); watts is <<q>> for a number and << >> for
\* None.  tie_up is how the
\* division w / 1000 falls when its exact quotient is a tie of the rounding
\* to one decimal.
FormatPower(watts, unit, tie_up) ==
    LET w == IF watts = << >> \/ watts[1] = 0 THEN 0 ELSE Abs(watts[1])
    IN  IF unit = "kW" THEN KilowattsText(w, tie_up)
        ELSE IF unit = "W" THEN WattsText(w)
        ELSE IF w >= Num(1000) THEN KilowattsText(w, tie_up)
        ELSE WattsText(w)

---------------------------------------------------------------------------
(* EVCCCollector: transformers *)

MODE_LABELS == [off |-> "Off", pv |-> "Solar", minpv |-> "Min+Solar", now |-> "Fast"]

\* Mutation: the "Finished" test placed before the "Waiting for solar" test
DeriveStatusFinishedFirst(lp) ==
    LET connected == Get(lp, "connected", FALSE)
        enabled   == Get(lp, "enabled", FALSE)
        charging  == Get(lp, "charging", FALSE)
        mode      == Get(lp, "mode", "")
    IN  IF charging THEN "Charging"
        ELSE IF connected /\ enabled /\ ~charging THEN "Finished"
        ELSE IF connected /\ enabled /\ ~charging /\ mode \in {"pv", "minpv"}
             THEN "Waiting for solar"
        ELSE IF connected /\ ~enabled THEN "Connected"
        ELSE "Disconnected"

DeriveStatus(lp) ==
    LET connected == Get(lp, "connected", FALSE)
        enabled   == Get(lp, "enabled", FALSE)
        charging  == Get(lp, "charging", FALSE)
        mode      == Get(lp, "mode", "")
    IN  IF charging THEN "Charging"
        ELSE IF connected /\ enabled /\ ~charging /\ mode \in {"pv", "minpv"}
             THEN "Waiting for solar"
        ELSE IF connected /\ enabled /\ ~charging THEN "Finished"
        ELSE IF connected /\ ~enabled THEN "Connected"
        ELSE "Disconnected"

\* transform_loadpoint, for the fields of the summary that carry no
\* arithmetic (labels, flags, status).
TransformLoadpoint(lp) ==
    LET mode == Get(lp, "mode", "off")
    IN  [ title             |-> Get(lp, "title", ""),
          mode              |-> mode,
          mode_label        |-> Get(MODE_LABELS, mode, mode),
          charging          |-> Get(lp, "charging", FALSE),
          connected         |-> Get(lp, "connected", FALSE),
          enabled           |-> Get(lp, "enabled", FALSE),
          status            |-> DeriveStatus(lp),
          vehicle_connected |-> Get(lp, "connected", FALSE) ]

\* JSON values of the "statistics" field: an object, or null.
JNull == [t |-> "null"]

JObject == [t |-> "object"]

\* transform_statistics calls stats.get on whatever "statistics" holds:
\* AttributeError when it is null.
StatisticsRaises(state) == Get(state, "statistics", JObject) = JNull

\* JSON numbers are fixed-point values in a 1-tuple, <<q>>; a JSON null in
\* a numeric field, and Python's None, is << >>.  A key that is absent is
\* not in the DOMAIN of the dict.
NoNumber == << >>

\* "x or 0" on a number or None
OrZero(v) == IF v = NoNumber \/ v[1] = 0 THEN 0 ELSE v[1]

\* isinstance(v, dict) on a JSON object or null
IsDict(v) == v # JNull

\* The "battery" field holds a JSON array, or null.
JArray(items) == [t |-> "array", items |-> items]

\* isinstance(v, list)
IsList(v) == v.t = "array"

\* round(x * 100): the product is a double, a tie goes where the double lies
RoundHundredfold(q, tie_up) == RoundNearest(100 * q, Resolution, FALSE, tie_up)

\* round(x, 1) and round(x, 2) of a number or None: the count of tenths
\* (hundredths), None when x is None
RoundDecimals(v, scale, tie_up) ==
    IF v = NoNumber THEN NoNumber
    ELSE <<RoundNearest(scale * v[1], Resolution, FALSE, tie_up)>>

\* The strings of format_duration: "", "<a>m", "<a>:<b two digits>h",
\* "<a>d <b>h".
DurationText(form, a, b) == [form |-> form, a |-> a, b |-> b]

NoDuration == DurationText("", 0, 0)

FormatDuration(seconds) ==
    IF seconds = NoNumber \/ seconds[1] = 0 THEN NoDuration
    ELSE LET s == seconds[1]
         IN  IF s < Num(60) THEN NoDuration
             ELSE IF s < Num(3600) THEN DurationText("m", s \div Num(60), 0)
             ELSE IF s < Num(86400)
                  THEN DurationText("h:mm", s \div Num(3600), (s % Num(3600)) \div Num(60))
             ELSE DurationText("d h", s \div Num(86400), (s % Num(86400)) \div Num(3600))

\* Mutation: grid_obj["power"] indexed, the fallback to gridPower forgotten
TransformEnergyIndexed(state, power_unit, tie_up) ==
    LET pv_power        == OrZero(Get(state, "pvPower", <<0>>))
        grid_obj        == Get(state, "grid", EmptyDict)
        home_power      == OrZero(Get(state, "homePower", <<0>>))
        green_share_raw == OrZero(Get(state, "greenShareHome", <<0>>))
    IN  IF IsDict(grid_obj) /\ "power" \notin DOMAIN grid_obj
        THEN Raised("KeyError")
        ELSE LET grid_power_raw == IF IsDict(grid_obj)
                                   THEN OrZero(grid_obj["power"])
                                   ELSE OrZero(Get(state, "gridPower", <<0>>))
             IN  Returned(
                   [ pv_power             |-> pv_power,
                     pv_power_formatted   |-> FormatPower(<<pv_power>>, power_unit, tie_up),
                     grid_power           |-> Abs(grid_power_raw),
                     grid_power_formatted |-> FormatPower(<<grid_power_raw>>, power_unit, tie_up),
                     grid_import          |-> grid_power_raw > 0,
                     home_power           |-> home_power,
                     home_power_formatted |-> FormatPower(<<home_power>>, power_unit, tie_up),
                     green_share_home     |-> RoundHundredfold(green_share_raw, tie_up),
                     tariff_grid          |-> Get(state, "tariffGrid", NoNumber),
                     tariff_feedin        |-> Get(state, "tariffFeedIn", NoNumber),
                     tariff_price_home    |-> Get(state, "tariffPriceHome", NoNumber) ])

TransformEnergy(state, power_unit, tie_up) ==
    LET pv_power        == OrZero(Get(state, "pvPower", <<0>>))
        grid_obj        == Get(state, "grid", EmptyDict)
        grid_power_raw  == IF IsDict(grid_obj)
                           THEN OrZero(Get(grid_obj, "power", Get(state, "gridPower", <<0>>)))
                           ELSE OrZero(Get(state, "gridPower", <<0>>))
        home_power      == OrZero(Get(state, "homePower", <<0>>))
        green_share_raw == OrZero(Get(state, "greenShareHome", <<0>>))
    IN  Returned(
          [ pv_power             |-> pv_power,
            pv_power_formatted   |-> FormatPower(<<pv_power>>, power_unit, tie_up),
            grid_power           |-> Abs(grid_power_raw),
            grid_power_formatted |-> FormatPower(<<grid_power_raw>>, power_unit, tie_up),
            grid_import          |-> grid_power_raw > 0,
            home_power           |-> home_power,
            home_power_formatted |-> FormatPower(<<home_power>>, power_unit, tie_up),
            green_share_home     |-> RoundHundredfold(green_share_raw, tie_up),
            tariff_grid          |-> Get(state, "tariffGrid", NoNumber),
            tariff_feedin        |-> Get(state, "tariffFeedIn", NoNumber),
            tariff_price_home    |-> Get(state, "tariffPriceHome", NoNumber) ])

\* sum(... for b in batteries) of a field read with "b.get(k, 0) or 0"
RECURSIVE SumOf(_, _)
SumOf(batteries, k) ==
    IF batteries = << >> THEN 0
    ELSE OrZero(Get(Head(batteries), k, <<0>>)) + SumOf(Tail(batteries), k)

TransformBattery(state, power_unit, tie_up) ==
    LET got       == Get(state, "battery", JArray(<< >>))
        batteries == IF IsList(got) THEN got.items ELSE << >>
    IN  IF Len(batteries) = 0
        THEN Returned(
               [ configured      |-> FALSE,
                 soc             |-> 0,
                 power           |-> 0,
                 power_formatted |-> FormatPower(<<0>>, power_unit, tie_up),
                 charging        |-> FALSE ])
        ELSE LET total_power == SumOf(batteries, "power")
             IN  Returned(
                   [ configured      |-> TRUE,
                     soc             |-> RoundNearest(SumOf(batteries, "soc"),
                                                      Len(batteries) * Resolution, TRUE, tie_up),
                     power           |-> total_power,
                     power_formatted |-> FormatPower(<<total_power>>, power_unit, tie_up),
                     charging        |-> total_power > 0 ])

\* "a or b" on two strings or None (<<s>> / << >>); the empty string is falsy
OrElse(a, b) == IF a = << >> \/ a = <<"">> THEN b ELSE a

\* transform_loadpoint, for the fields of the summary that carry a
\* measurement: power, energy, durations, session, vehicle and plan.
TransformLoadpointMeasures(lp, power_unit, tie_up) ==
    LET charge_power      == OrZero(Get(lp, "chargePower", <<0>>))
        charged_energy    == OrZero(Get(lp, "chargedEnergy", <<0>>))
        solar_raw         == Get(lp, "sessionSolarPercentage", NoNumber)
        session_solar_pct == IF solar_raw = NoNumber THEN 0 ELSE PyRound(solar_raw[1])
    IN  [ charge_power               |-> charge_power,
          charge_power_formatted     |-> FormatPower(<<charge_power>>, power_unit, tie_up),
          charged_energy_kwh         |-> TenthsOfThousandth(charged_energy, tie_up),
          charge_duration_formatted  |-> FormatDuration(Get(lp, "chargeDuration", NoNumber)),
          charge_remaining_formatted |-> FormatDuration(Get(lp, "chargeRemainingDuration", NoNumber)),
          session_solar_pct          |-> session_solar_pct,
          session_price              |-> RoundDecimals(Get(lp, "sessionPrice", NoNumber), 100, tie_up),
          vehicle_title              |-> OrElse(Get(lp, "vehicleTitle", << >>),
                                                Get(lp, "vehicleName", << >>)),
          vehicle_soc                |-> PyRound(OrZero(Get(lp, "vehicleSoc", <<0>>))),
          vehicle_range              |-> Get(lp, "vehicleRange", NoNumber),
          limit_soc                  |-> Get(lp, "effectiveLimitSoc", NoNumber),
          plan_active                |-> Get(lp, "planActive", FALSE),
          plan_time                  |-> Get(lp, "planTime", << >>),
          phases_active              |-> Get(lp, "phasesActive", NoNumber) ]

\* The whole dict transform_loadpoint returns
TransformLoadpointAll(lp, power_unit, tie_up) ==
    Returned(TransformLoadpoint(lp) @@ TransformLoadpointMeasures(lp, power_unit, tie_up))

PERIODS == <<"30d", "total">>

\* result[period] of transform_statistics
TransformPeriod(period_data, tie_up) ==
    LET solar == Get(period_data, "solarPercentage", NoNumber)
    IN  [ charged_kwh |-> RoundDecimals(Get(period_data, "chargedKWh", NoNumber), 10, tie_up),
          solar_pct   |-> IF solar = NoNumber THEN NoNumber ELSE <<PyRound(solar[1])>>,
          avg_price   |-> RoundDecimals(Get(period_data, "avgPrice", NoNumber), 100, tie_up) ]

\* transform_statistics: .get on the statistics object and on each period
\* object, AttributeError when one of them is null.
TransformStatistics(state, tie_up) ==
    LET stats == Get(state, "statistics", EmptyDict)
    IN  IF stats = JNull THEN Raised("AttributeError")
        ELSE IF \E i \in DOMAIN PERIODS : Get(stats, PERIODS[i], EmptyDict) = JNull
             THEN Raised("AttributeError")
        ELSE Returned([ p \in { PERIODS[i] : i \in DOMAIN PERIODS } |->
                          TransformPeriod(Get(stats, p, EmptyDict), tie_up) ])


---------------------------------------------------------------------------
(* EVCCCollector: _api_request, collect, send *)

\* Exceptions that derive from requests.exceptions.RequestException.
REQUEST_EXCEPTIONS == {"ConnectionError", "Timeout", "HTTPError", "JSONDecodeError"}


\* A fetch is what requests.get and response.json() produce: an exception,
\* or a parsed body.  Every handler of _api_request logs and re-raises; a
\* body that is no JSON object has no .get (AttributeError).
ApiRequest(fetch) ==
    IF fetch.outcome = "connection_error" THEN Raised("ConnectionError")
    ELSE IF fetch.outcome = "timeout" THEN Raised("Timeout")
    ELSE IF fetch.outcome = "http_error" THEN Raised("HTTPError")
    ELSE IF fetch.outcome = "invalid_json" THEN Raised("JSONDecodeError")
    ELSE IF fetch.outcome = "not_an_object" THEN Raised("AttributeError")
    ELSE Returned(Get(fetch.body, "result", fetch.body))

\* The payload of collect() from the fetched state (lines 369-389): site
\* metadata, the timestamp `now`, the loadpoint summaries and their count.
\* transform_statistics is the transformer that raises on a null field.
BuildPayload(state, now, max_loadpoints) ==
    LET loadpoints == Get(state, "loadpoints", << >>)
        kept       == PySliceTo(loadpoints, max_loadpoints)
    IN  IF StatisticsRaises(state) THEN Raised("AttributeError")
        ELSE Returned(
          [ merge_variables |->
              [ site_title      |-> Get(state, "siteTitle", "EVCC"),
                last_updated    |-> now,
                currency        |-> Get(state, "currency", "EUR"),
                loadpoints      |-> [i \in 1..Len(kept) |-> TransformLoadpoint(kept[i])],
                loadpoint_count |-> Len(loadpoints) ] ])

Collect(fetch, now, max_loadpoints) ==
    LET state == ApiRequest(fetch)
    IN  IF state.raised THEN state
        ELSE BuildPayload(state.value, now, max_loadpoints)

\* response.raise_for_status(): HTTPError for a 4xx or 5xx status.
RaiseForStatus(status) == status >= 400 /\ status < 600

\* Mutation: send without its except clause, a failed POST propagates
SendPropagates(collector, post) ==
    IF collector.dry_run \/ collector.webhook = ""
    THEN [posts |-> 0, printed |-> TRUE, exc |-> "none", ret |-> TRUE]
    ELSE LET e == IF post.exc # "none" THEN post.exc
                  ELSE IF RaiseForStatus(post.status) THEN "HTTPError"
                  ELSE "none"
         IN  [posts |-> 1, printed |-> FALSE, exc |-> e, ret |-> e = "none"]

\* send(payload) with the outcome `post` of requests.post, should it be called.
\* posts: POSTs performed; printed: payload written to standard output;
\* exc: the exception that leaves send ("none": it returns ret).
Send(collector, post) ==
    IF collector.dry_run \/ collector.webhook = ""
    THEN [posts |-> 0, printed |-> TRUE, exc |-> "none", ret |-> TRUE]
    ELSE LET e == IF post.exc # "none" THEN post.exc
                  ELSE IF RaiseForStatus(post.status) THEN "HTTPError"
                  ELSE "none"
         IN  IF e = "none"
             THEN [posts |-> 1, printed |-> FALSE, exc |-> "none", ret |-> TRUE]
             ELSE IF e \in REQUEST_EXCEPTIONS
             THEN [posts |-> 1, printed |-> FALSE, exc |-> "none", ret |-> FALSE]
             ELSE [posts |-> 1, printed |-> FALSE, exc |-> e, ret |-> FALSE]

---------------------------------------------------------------------------
(* Cache slot *)

\* Mutation: the slot is only filled when it is empty (setdefault)
StorePayloadKeepFirst(sd, p) ==
    IF "evcc" \in DOMAIN sd THEN sd
    ELSE DictSet(sd, "evcc", Get(p, "merge_variables", p))

\* Mutation: the new snapshot is merged into the old one, whose site title
\* survives
StorePayloadMerge(sd, p) ==
    LET new == Get(p, "merge_variables", p)
    IN  IF "evcc" \in DOMAIN sd
        THEN DictSet(sd, "evcc", [new EXCEPT !.site_title = sd["evcc"].site_title])
        ELSE DictSet(sd, "evcc", new)

\* The assignment store_payload makes under the lock.
StorePayload(sd, p) == DictSet(sd, "evcc", Get(p, "merge_variables", p))

---------------------------------------------------------------------------
(* Inputs of the process *)

\* --interval values: 0 runs once, a positive value loops.
Intervals == {0, 30}

\* max_loadpoints when neither flag nor config sets it.
DefaultMaxLoadpoints == 4

\* The merged options of main(): which startup path is taken, and the
\* collector's options.  config: how --config went; url: -u given.
Args ==
    [ config   : {"none", "unreadable", "no_evcc_url", "ok"},
      url      : BOOLEAN,
      interval : Intervals,
      serve    : BOOLEAN,
      webhook  : {"", "https://hook"},
      dry_run  : BOOLEAN ]

Lp1 == [title |-> "Garage", mode |-> "pv", connected |-> TRUE, enabled |-> TRUE,
        charging |-> FALSE]

Lp2 == [title |-> "Carport", mode |-> "now", charging |-> TRUE]

RawA == [siteTitle |-> "Home", loadpoints |-> <<Lp1>>]

RawB == [loadpoints |-> <<Lp2, Lp1>>]

RawNullStatistics == [siteTitle |-> "Home", statistics |-> JNull]

\* What a GET of {url}/api/state can produce.
Fetches ==
    { [outcome |-> "ok", body |-> RawA],
      [outcome |-> "ok", body |-> [result |-> RawB]],
      [outcome |-> "ok", body |-> RawNullStatistics] }
    \cup { [outcome |-> o, body |-> EmptyDict] :
             o \in {"connection_error", "timeout", "http_error", "invalid_json",
                    "not_an_object"} }

\* What the POST to the webhook can produce.
Posts ==
    { [exc |-> "none", status |-> s] : s \in {200, 204, 304, 404, 500} }
    \cup { [exc |-> e, status |-> 0] : e \in {"ConnectionError", "Timeout"} }

\* Request paths, as sequences of "/" and names.
DataPath(name) == <<"/", "data", "/", name>>

Paths == { <<"/">>, DataPath("evcc"), DataPath("evcc") \o <<"/">>,
           DataPath("other"), <<"/", "data">> }

---------------------------------------------------------------------------
(* main: startup, run loop, exit *)

\* What the current run_collection has done so far.  sent: send was called;
\* raised: an exception left send; failed: the except clause ran.
CycleStart == [sent |-> FALSE, posts |-> 0, printed |-> FALSE, raised |-> FALSE,
               post |-> None, failed |-> FALSE, success |-> FALSE]

\* The sys.exit(1) paths before the collector exists (lines 560-592).
StartupError(a) ==
    IF a.config # "none" THEN a.config \in {"unreadable", "no_evcc_url"}
    ELSE ~a.url

\* Mutation: "except requests.exceptions.RequestException" in run_collection
CatchesRequestExceptions(exc) == exc \in REQUEST_EXCEPTIONS

\* run_collection's "except Exception": everything but the exceptions that
\* derive from BaseException only.
RunCollectionCatches(exc) == exc \notin {"SystemExit", "KeyboardInterrupt"}

\* Mutation: sys.exit(0) whatever the cycle returned
ExitCodeZero(success) == 0

\* sys.exit(0 if success else 1)
ExitCode(success) == IF success THEN 0 ELSE 1

\* Mutation: the slot is accessed without taking the lock
CanAcquireAlways(other_holds) == TRUE

\* acquiring _serve_lock: only when the other thread does not hold it
CanAcquire(other_holds) == ~other_holds

Exit(code, cause) ==
    /\ pc' = "exited"
    /\ exit_code' = code
    /\ exit_cause' = cause
    /\ lock_main' = FALSE

Running == pc \notin {"main", "exited"}

InRunCollection == pc \in {"collect", "store_lock", "store_write", "store_unlock", "send"}

\* main() up to the run loop: options, collector, signal handlers, server.
Startup ==
    /\ pc = "main"
    /\ IF StartupError(args)
       THEN /\ Exit(1, "config")
            /\ UNCHANGED server_up
       ELSE /\ server_up' = args.serve
            /\ pc' = "collect"
            /\ UNCHANGED << exit_code, exit_cause, lock_main >>
    /\ UNCHANGED << args, clock, payload, cycle, serve_data, lock_srv, spc, path,
                    data, endpoints, response, collected, stored, observed,
                    fetches, call, result >>

\* An exception `exc` leaves the try block of run_collection, whose cycle
\* record so far is `cyc`.
Except(exc, cyc) ==
    IF RunCollectionCatches(exc)
    THEN /\ pc' = "returned"
         /\ cycle' = [cyc EXCEPT !.failed = TRUE, !.success = FALSE]
         /\ UNCHANGED << exit_code, exit_cause >>
         /\ lock_main' = FALSE
    ELSE /\ Exit(IF exc = "SystemExit" THEN 0 ELSE 1,
                 IF exc = "SystemExit" THEN "signal" ELSE "exception")
         /\ cycle' = cyc

\* payload = collector.collect()
CollectStep ==
    /\ pc = "collect"
    /\ \E f \in Fetches :
         LET r == Collect(f, clock, DefaultMaxLoadpoints)
         IN  /\ fetches' = Min(fetches + 1, MaxFetches)
             /\ IF r.raised
                THEN /\ Except(r.exc, cycle)
                     /\ UNCHANGED << payload, collected >>
                ELSE /\ payload' = r.value
                     /\ collected' = r.value.merge_variables
                     /\ pc' = "store_lock"
                     /\ UNCHANGED << exit_code, exit_cause, lock_main, cycle >>
    /\ UNCHANGED << args, clock, serve_data, lock_srv, server_up, spc, path, data,
                    endpoints, response, stored, observed, call, result >>

\* store_payload: with _serve_lock
StoreAcquire ==
    /\ pc = "store_lock"
    /\ CanAcquire(lock_srv)
    /\ lock_main' = TRUE
    /\ pc' = "store_write"
    /\ UNCHANGED << args, exit_code, exit_cause, clock, payload, cycle, serve_data,
                    lock_srv, server_up, spc, path, data, endpoints, response,
                    collected, stored, observed, fetches, call, result >>

\* _serve_data["evcc"] = data
StoreWrite ==
    /\ pc = "store_write"
    /\ serve_data' = StorePayload(serve_data, payload)
    /\ stored' = Get(payload, "merge_variables", payload)
    /\ pc' = "store_unlock"
    /\ UNCHANGED << args, exit_code, exit_cause, clock, payload, cycle, lock_main,
                    lock_srv, server_up, spc, path, data, endpoints, response,
                    collected, observed, fetches, call, result >>

StoreRelease ==
    /\ pc = "store_unlock"
    /\ lock_main' = FALSE
    /\ pc' = "send"
    /\ UNCHANGED << args, exit_code, exit_cause, clock, payload, cycle, serve_data,
                    lock_srv, server_up, spc, path, data, endpoints, response,
                    collected, stored, observed, fetches, call, result >>

\* success = collector.send(payload); return success
SendStep ==
    /\ pc = "send"
    /\ \E post \in Posts :
         LET r   == Send(args, post)
             cyc == [ sent    |-> TRUE,
                      posts   |-> r.posts,
                      printed |-> r.printed,
                      raised  |-> r.exc # "none",
                      post    |-> IF r.posts > 0 THEN post ELSE None,
                      failed  |-> FALSE,
                      success |-> r.ret ]
         IN  IF r.exc # "none"
             THEN Except(r.exc, cyc)
             ELSE /\ cycle' = cyc
                  /\ pc' = "returned"
                  /\ UNCHANGED << exit_code, exit_cause, lock_main >>
    /\ UNCHANGED << args, clock, payload, serve_data, lock_srv, server_up, spc,
                    path, data, endpoints, response, collected, stored, observed,
                    fetches, call, result >>

\* back in main: the loop sleeps, the single run exits
AfterCollection ==
    /\ pc = "returned"
    /\ IF args.interval > 0
       THEN /\ pc' = "sleep"
            /\ UNCHANGED << exit_code, exit_cause, lock_main >>
       ELSE Exit(ExitCode(cycle.success), "single_run")
    /\ UNCHANGED << args, clock, payload, cycle, serve_data, lock_srv, server_up,
                    spc, path, data, endpoints, response, collected, stored,
                    observed, fetches, call, result >>

\* time.sleep(interval), then the next run_collection
Sleep ==
    /\ pc = "sleep"
    /\ clock' = Min(clock + 1, MaxClock)
    /\ pc' = "collect"
    /\ payload' = None
    /\ cycle' = CycleStart
    /\ UNCHANGED << args, exit_code, exit_cause, serve_data, lock_main, lock_srv,
                    server_up, spc, path, data, endpoints, response, collected,
                    stored, observed, fetches, call, result >>

\* SIGINT or SIGTERM: signal_handler raises SystemExit in the main thread.
Signal ==
    /\ Running
    /\ IF InRunCollection
       THEN Except("SystemExit", cycle)
       ELSE /\ Exit(0, "signal")
            /\ UNCHANGED cycle
    /\ UNCHANGED << args, clock, payload, serve_data, lock_srv, server_up, spc,
                    path, data, endpoints, response, collected, stored, observed,
                    fetches, call, result >>

---------------------------------------------------------------------------
(* DataHandler.do_GET, run by the single thread of HTTPServer.serve_forever *)

\* path.rstrip('/')
RECURSIVE RStrip(_)
RStrip(p) ==
    IF Len(p) > 0 /\ p[Len(p)] = "/" THEN RStrip(SubSeq(p, 1, Len(p) - 1)) ELSE p

\* which branch of do_GET a request path takes
Route(p) ==
    LET q == RStrip(p)
    IN  IF q = << >> \/ q = <<"/">> THEN "root_lock"
        ELSE IF q = DataPath("evcc") THEN "data_lock"
        ELSE "not_found"

\* the body of the answer to GET /, given the endpoints computed under the lock
RootBody(eps) == [endpoints |-> [evcc |-> DataPath("evcc")]]

\* the answer to GET /data/evcc, given the slot's value read under the lock
DataResponse(d) ==
    IF d = None
    THEN [status |-> 404, body |-> [error |-> "No data collected yet"]]
    ELSE [status |-> 200, body |-> d]

Serving == server_up /\ pc # "exited"

srvUnchanged == << args, pc, exit_code, exit_cause, clock, payload, cycle,
                   lock_main, server_up, collected, stored, fetches, call, result >>

Request ==
    /\ Serving
    /\ spc = "idle"
    /\ \E p \in Paths :
         /\ path' = p
         /\ spc' = Route(p)
    /\ data' = None
    /\ endpoints' = EmptyDict
    /\ response' = None
    /\ UNCHANGED srvUnchanged
    /\ UNCHANGED << serve_data, lock_srv, observed >>

RootAcquire ==
    /\ Serving
    /\ spc = "root_lock"
    /\ CanAcquire(lock_main)
    /\ lock_srv' = TRUE
    /\ spc' = "root_read"
    /\ UNCHANGED srvUnchanged
    /\ UNCHANGED << serve_data, path, data, endpoints, response, observed >>

\* endpoints = {name: f'/data/{name}' for name in _serve_data}
RootRead ==
    /\ Serving
    /\ spc = "root_read"
    /\ endpoints' = [name \in DOMAIN serve_data |-> DataPath(name)]
    /\ spc' = "root_unlock"
    /\ UNCHANGED srvUnchanged
    /\ UNCHANGED << serve_data, lock_srv, path, data, response, observed >>

RootRelease ==
    /\ Serving
    /\ spc = "root_unlock"
    /\ lock_srv' = FALSE
    /\ spc' = "root_respond"
    /\ UNCHANGED srvUnchanged
    /\ UNCHANGED << serve_data, path, data, endpoints, response, observed >>

RootRespond ==
    /\ Serving
    /\ spc = "root_respond"
    /\ response' = [status |-> 200, body |-> RootBody(endpoints)]
    /\ spc' = "idle"
    /\ UNCHANGED srvUnchanged
    /\ UNCHANGED << serve_data, lock_srv, path, data, endpoints, observed >>

DataAcquire ==
    /\ Serving
    /\ spc = "data_lock"
    /\ CanAcquire(lock_main)
    /\ lock_srv' = TRUE
    /\ spc' = "data_read"
    /\ UNCHANGED srvUnchanged
    /\ UNCHANGED << serve_data, path, data, endpoints, response, observed >>

\* data = _serve_data.get("evcc")
DataRead ==
    /\ Serving
    /\ spc = "data_read"
    /\ data' = Get(serve_data, "evcc", None)
    /\ spc' = "data_unlock"
    /\ UNCHANGED srvUnchanged
    /\ UNCHANGED << serve_data, lock_srv, path, endpoints, response, observed >>

DataRelease ==
    /\ Serving
    /\ spc = "data_unlock"
    /\ lock_srv' = FALSE
    /\ spc' = "data_respond"
    /\ UNCHANGED srvUnchanged
    /\ UNCHANGED << serve_data, path, data, endpoints, response, observed >>

DataRespond ==
    /\ Serving
    /\ spc = "data_respond"
    /\ response' = DataResponse(data)
    /\ observed' = IF response'.status = 200
                   THEN Max(observed, response'.body.last_updated)
                   ELSE observed
    /\ spc' = "idle"
    /\ UNCHANGED srvUnchanged
    /\ UNCHANGED << serve_data, lock_srv, path, data, endpoints >>

\* self.send_response(404) for any other path
NotFound ==
    /\ Serving
    /\ spc = "not_found"
    /\ response' = [status |-> 404, body |-> None]
    /\ spc' = "idle"
    /\ UNCHANGED srvUnchanged
    /\ UNCHANGED << serve_data, lock_srv, path, data, endpoints, observed >>

---------------------------------------------------------------------------
(* The process *)

\* The process before main() runs, with options `a`.
ProcInit(a) ==
    /\ args = a
    /\ pc = "main"
    /\ exit_code = -1
    /\ exit_cause = "none"
    /\ clock = 1
    /\ payload = None
    /\ cycle = CycleStart
    /\ serve_data = EmptyDict
    /\ lock_main = FALSE
    /\ lock_srv = FALSE
    /\ server_up = FALSE
    /\ spc = "idle"
    /\ path = << >>
    /\ data = None
    /\ endpoints = EmptyDict
    /\ response = None
    /\ collected = None
    /\ stored = None
    /\ observed = 0
    /\ fetches = 0

Init ==
    /\ \E a \in Args : ProcInit(a)
    /\ call = None
    /\ result = None

MainThread ==
    \/ Startup
    \/ CollectStep
    \/ StoreAcquire
    \/ StoreWrite
    \/ StoreRelease
    \/ SendStep
    \/ AfterCollection
    \/ Sleep

Next ==
    \/ Startup
    \/ CollectStep
    \/ StoreAcquire
    \/ StoreWrite
    \/ StoreRelease
    \/ SendStep
    \/ AfterCollection
    \/ Sleep
    \/ Signal
    \/ Request
    \/ RootAcquire
    \/ RootRead
    \/ RootRelease
    \/ RootRespond
    \/ DataAcquire
    \/ DataRead
    \/ DataRelease
    \/ DataRespond
    \/ NotFound

Spec == Init /\ [][Next]_vars

\* The scheduler runs the main thread whenever it can take a step: the
\* fetch and the POST end within their 30 s timeouts, and the sleep ends.
FairSpec == Init /\ [][Next]_vars /\ WF_vars(MainThread)

---------------------------------------------------------------------------
(* derive_status on every loadpoint *)

Modes == {"pv", "minpv", "now", "off", "unknown"}

\* Loadpoint dicts with each of the four fields true/false/absent, or a
\* mode/absent.
StatusLoadpoints ==
    { Field("charging", ch) @@ Field("connected", co) @@ Field("enabled", en)
        @@ Field("mode", mo) :
      ch \in Opt(BOOLEAN), co \in Opt(BOOLEAN), en \in Opt(BOOLEAN), mo \in Opt(Modes) }

NoArgs == [config |-> "none", url |-> FALSE, interval |-> 0, serve |-> FALSE,
           webhook |-> "", dry_run |-> FALSE]

StatusInit ==
    /\ ProcInit(NoArgs)
    /\ call \in { [fn |-> "derive_status", lp |-> d] : d \in StatusLoadpoints }
    /\ result = None

ApplyDeriveStatus ==
    /\ call.fn = "derive_status"
    /\ result = None
    /\ result' = Returned(DeriveStatus(call.lp))
    /\ UNCHANGED << call, procVars >>

StatusNext == ApplyDeriveStatus

StatusSpec == StatusInit /\ [][StatusNext]_vars

---------------------------------------------------------------------------
(* collect() on every RawState and max_loadpoints *)

RECURSIVE SeqsUpTo(_, _)
SeqsUpTo(S, n) ==
    IF n = 0 THEN {<< >>}
    ELSE LET shorter == SeqsUpTo(S, n - 1)
         IN  shorter \cup { Append(q, x) : q \in shorter, x \in S }

CollectStates ==
    { Field("siteTitle", t) @@ Field("loadpoints", l) :
      t \in Opt({"Home"}), l \in Opt(SeqsUpTo({Lp1, Lp2}, MaxLen)) }

\* max_loadpoints is an int of the command line or the config file
MaxLoadpointsValues == (0 - MaxLen)..(MaxLen + 1)

CollectInit ==
    /\ ProcInit(NoArgs)
    /\ call \in { [fn |-> "collect", state |-> st, wrapped |-> w, max_loadpoints |-> m] :
                    st \in CollectStates, w \in BOOLEAN, m \in MaxLoadpointsValues }
    /\ result = None

ApplyCollect ==
    /\ call.fn = "collect"
    /\ result = None
    /\ LET body == IF call.wrapped THEN [result |-> call.state] ELSE call.state
       IN  result' = Collect([outcome |-> "ok", body |-> body], clock, call.max_loadpoints)
    /\ UNCHANGED << call, procVars >>

CollectNext == ApplyCollect

CollectSpec == CollectInit /\ [][CollectNext]_vars

---------------------------------------------------------------------------
(* format_power on every value and unit *)

\* "MW" stands for a power_unit of the config file that is none of the three
PowerUnits == {"auto", "W", "kW", "MW"}

PowerValues == (0 - Num(MaxWatts))..Num(MaxWatts)

FormatInit ==
    /\ ProcInit(NoArgs)
    /\ call \in { [fn |-> "format_power", watts |-> w, unit |-> u, tie_up |-> t] :
                    w \in Opt(PowerValues), u \in PowerUnits, t \in BOOLEAN }
    /\ result = None

ApplyFormatPower ==
    /\ call.fn = "format_power"
    /\ result = None
    /\ result' = Returned(FormatPower(call.watts, call.unit, call.tie_up))
    /\ UNCHANGED << call, procVars >>

FormatNext == ApplyFormatPower

FormatSpec == FormatInit /\ [][FormatNext]_vars

---------------------------------------------------------------------------
(* The transformers on every RawState with fields absent, null or set *)

\* Most battery units of a RawState
MaxBatteries == 2

\* RawStates for transform_energy: each field absent, null or a number;
\* "grid" absent, null, an object without "power" or with it.
GridObjects ==
    {JNull, EmptyDict}
    \cup { [power |-> v] : v \in {NoNumber, <<0>>, <<0 - Num(500)>>, <<Num(500)>>} }

EnergyStates ==
    { Field("pvPower", pv) @@ Field("grid", g) @@ Field("gridPower", gp)
        @@ Field("homePower", hp) @@ Field("greenShareHome", gs)
        @@ Field("tariffGrid", tg) @@ Field("tariffFeedIn", tf)
        @@ Field("tariffPriceHome", th) :
      pv \in Opt({NoNumber, <<Num(500)>>}),
      g  \in Opt(GridObjects),
      gp \in Opt({NoNumber, <<Num(300)>>, <<0 - Num(300)>>}),
      hp \in Opt({<<Num(1200)>>}),
      gs \in Opt({<<1>>, <<Resolution>>}),
      tg \in Opt({<<1>>}), tf \in Opt({<<2>>}), th \in Opt({<<3>>}) }

\* Battery units: "soc" and "power" absent, null or a number
BatteryUnits ==
    { Field("soc", soc) @@ Field("power", pw) :
      soc \in Opt({NoNumber, <<Num(50)>>, <<Num(51)>>}),
      pw  \in Opt({<<0 - Num(200)>>, <<Num(300)>>}) }

BatteryStates ==
    { Field("battery", b) :
      b \in Opt({JNull} \cup { JArray(u) : u \in SeqsUpTo(BatteryUnits, MaxBatteries) }) }

\* A loadpoint with every field that transform_loadpoint reads
FullLoadpoint ==
    Lp1 @@ [ chargePower |-> <<Num(1500)>>, chargedEnergy |-> <<Num(150)>>,
             sessionSolarPercentage |-> <<Num(2) + 2>>, sessionPrice |-> <<Num(3) + 1>>,
             chargeDuration |-> <<Num(3700)>>, chargeRemainingDuration |-> <<Num(90000)>>,
             vehicleTitle |-> <<"Car">>, vehicleName |-> <<"car-1">>,
             vehicleSoc |-> <<Num(80) + 1>>, vehicleRange |-> <<Num(250)>>,
             effectiveLimitSoc |-> <<Num(90)>>, planActive |-> TRUE,
             planTime |-> <<"07:00">>, phasesActive |-> <<Num(3)>> ]

\* Loadpoints: the flags and labels all absent or as in Lp1, and every
\* subset of the measurement fields absent.
MeasuredLoadpoints ==
    { [k \in flags \cup present |-> FullLoadpoint[k]] :
      flags \in {{}, DOMAIN Lp1},
      present \in SUBSET (DOMAIN FullLoadpoint \ DOMAIN Lp1) }

\* Statistics: the object absent or null, each period absent, null or an
\* object, each field of a period absent, null or a number.
StatisticsPeriods ==
    {JNull}
    \cup { Field("chargedKWh", c) @@ Field("solarPercentage", so) @@ Field("avgPrice", a) :
            c  \in Opt({NoNumber, <<Num(12) + 1>>}),
            so \in Opt({NoNumber, <<Num(40) + 2>>}),
            a  \in Opt({NoNumber, <<1>>}) }

StatisticsStates ==
    { Field("statistics", st) :
      st \in Opt({JNull} \cup { Field("30d", p) @@ Field("total", t) :
                                  p \in Opt(StatisticsPeriods),
                                  t \in Opt(StatisticsPeriods) }) }

\* One call of one transformer, with the collector's power_unit and the
\* side on which the doubles of the call fall at a decimal tie.
TransformInit ==
    /\ ProcInit(NoArgs)
    /\ \E u \in PowerUnits, t \in BOOLEAN :
         \/ \E st \in EnergyStates :
              call = [fn |-> "transform_energy", state |-> st, unit |-> u, tie_up |-> t]
         \/ \E st \in BatteryStates :
              call = [fn |-> "transform_battery", state |-> st, unit |-> u, tie_up |-> t]
         \/ \E lp \in MeasuredLoadpoints :
              /\ u \in {"auto", "kW"}
              /\ call = [fn |-> "transform_loadpoint", lp |-> lp, unit |-> u, tie_up |-> t]
         \/ \E st \in StatisticsStates :
              /\ u = "auto"
              /\ call = [fn |-> "transform_statistics", state |-> st, tie_up |-> t]
    /\ result = None

ApplyTransformEnergy ==
    /\ call.fn = "transform_energy"
    /\ result = None
    /\ result' = TransformEnergy(call.state, call.unit, call.tie_up)
    /\ UNCHANGED << call, procVars >>

ApplyTransformBattery ==
    /\ call.fn = "transform_battery"
    /\ result = None
    /\ result' = TransformBattery(call.state, call.unit, call.tie_up)
    /\ UNCHANGED << call, procVars >>

ApplyTransformLoadpoint ==
    /\ call.fn = "transform_loadpoint"
    /\ result = None
    /\ result' = TransformLoadpointAll(call.lp, call.unit, call.tie_up)
    /\ UNCHANGED << call, procVars >>

ApplyTransformStatistics ==
    /\ call.fn = "transform_statistics"
    /\ result = None
    /\ result' = TransformStatistics(call.state, call.tie_up)
    /\ UNCHANGED << call, procVars >>

TransformNext ==
    \/ ApplyTransformEnergy
    \/ ApplyTransformBattery
    \/ ApplyTransformLoadpoint
    \/ ApplyTransformStatistics

TransformSpec == TransformInit /\ [][TransformNext]_vars

---------------------------------------------------------------------------
(* Properties *)

\* run_collection has returned to main (or main has exited on its result)
CycleDone == pc \in {"returned", "sleep"} \/ exit_cause = "single_run"

\* a response to GET /data/evcc has been written and is the latest one
DataAnswered == spc = "idle" /\ response # None /\ Route(path) = "data_lock"

\* a response to GET / has been written and is the latest one
RootAnswered == spc = "idle" /\ response # None /\ Route(path) = "root_lock"

\* C1: once a collection cycle is over, the slot "evcc" holds exactly the
\* Snapshot of the most recent cycle whose collect() returned, whatever send
\* then did, and is empty as long as no collect() has returned; a cycle
\* whose collect() raised leaves it as it was.
CacheHoldsLastCollected ==
    CycleDone =>
        /\ collected = None => serve_data = EmptyDict
        /\ collected # None => /\ DOMAIN serve_data = {"evcc"}
                               /\ serve_data["evcc"] = collected

\* C1 witness: a second cycle collected and stored, and its POST failed.
CacheHoldsLastCollectedWitness ==
    /\ pc = "returned"
    /\ cycle.posts = 1
    /\ ~cycle.success
    /\ collected # None
    /\ collected.last_updated > 1
    /\ serve_data["evcc"] = collected

\* C2: the value GET /data/evcc reads under the lock is None exactly while
\* nothing was stored and otherwise the whole argument of the latest store;
\* the answer is 404 with an error body for None and 200 with that value
\* otherwise; after a 200 no answer to this path is a 404.
DataServesLatestStore ==
    /\ spc = "data_unlock" => data = stored
    /\ DataAnswered =>
         /\ data = None => /\ response.status = 404
                           /\ DOMAIN response.body = {"error"}
         /\ data # None => /\ response.status = 200
                           /\ response.body = data
         /\ observed > 0 => response.status = 200

\* C2 witness: a 200 whose body is the Snapshot of a second store.
DataServesLatestStoreWitness ==
    /\ DataAnswered
    /\ response.status = 200
    /\ response.body.last_updated > 1
    /\ response.body = stored

\* the claim's "no POST was due"
NoPostDue == args.dry_run \/ args.webhook = ""

\* the POST of the cycle got a success status: one for which
\* raise_for_status raises nothing (requests' Response.ok, any status below
\* 400, so a final 3xx such as 304 counts as well as a 2xx)
PostSucceeded ==
    /\ cycle.posts = 1
    /\ cycle.post.exc = "none"
    /\ cycle.post.status < 400

\* C3: send performs a POST only with a webhook and dry_run off, at most
\* one; no exception leaves it; it returns True exactly when no POST was due
\* (the payload then went to standard output) or the one POST succeeded; and
\* the slot already holds the payload's Snapshot.
SendOutcome ==
    cycle.sent =>
        /\ cycle.posts <= 1
        /\ cycle.posts = 1 => (args.webhook # "" /\ ~args.dry_run)
        /\ NoPostDue => (cycle.posts = 0 /\ cycle.printed)
        /\ ~cycle.raised
        /\ ~cycle.failed
        /\ cycle.success <=> (NoPostDue \/ PostSucceeded)
        /\ "evcc" \in DOMAIN serve_data
        /\ serve_data["evcc"] = payload.merge_variables

\* C3 witness: a POST that failed, send returned False, the slot is updated.
SendOutcomeWitness ==
    /\ cycle.sent
    /\ cycle.posts = 1
    /\ cycle.post.exc = "Timeout"
    /\ ~cycle.success
    /\ serve_data["evcc"] = payload.merge_variables

\* a cycle of interval mode is over and it failed
FailedCycleOver == args.interval > 0 /\ pc = "returned" /\ ~cycle.success

\* C4: in interval mode the process ends on a shutdown signal only (no
\* failure of a cycle leaves run_collection), and after every failed cycle
\* the next cycle is started unless a signal arrives first.
IntervalModeSurvivesFailures ==
    /\ [](args.interval > 0 /\ pc = "exited" => exit_cause \in {"signal", "config"})
    /\ (FailedCycleOver ~> (pc = "collect" \/ exit_cause = "signal"))

\* C4 witness: a further cycle starts although every collect() so far failed.
IntervalModeSurvivesFailuresWitness ==
    /\ args.interval > 0
    /\ pc = "collect"
    /\ fetches >= 2
    /\ collected = None

\* the claim's startup configuration errors
ConfigurationError ==
    \/ args.config = "unreadable"
    \/ args.config = "no_evcc_url"
    \/ args.config = "none" /\ ~args.url

\* the single cycle failed: collect() raised, or the POST failed
SingleCycleFailed ==
    \/ cycle.failed
    \/ cycle.posts = 1 /\ ~PostSucceeded

\* C5: the single run exits 0 after a cycle that succeeded and non-zero
\* after one whose fetch or push failed; with a configuration error the
\* process exits non-zero and never fetches.
ExitCodes ==
    /\ exit_cause = "single_run" =>
         /\ args.interval = 0
         /\ SingleCycleFailed => exit_code # 0
         /\ ~SingleCycleFailed => exit_code = 0
    /\ ConfigurationError =>
         /\ fetches = 0
         /\ pc = "exited" => (exit_code # 0 /\ exit_code # -1)

\* C5 witness: the single run exits 1 because its POST failed.
ExitCodesWitness ==
    /\ exit_cause = "single_run"
    /\ cycle.posts = 1
    /\ exit_code = 1

\* C6: once the server is started the process ends on a shutdown signal
\* only, for every interval.
ServeRunsUntilSignal ==
    (server_up /\ pc = "exited") => exit_cause = "signal"

\* C7: the names GET / lists are exactly those the cache held data for when
\* it was read, and every listed path answers 200.
RootListsCachedSlots ==
    RootAnswered =>
        /\ DOMAIN response.body.endpoints = DOMAIN endpoints
        /\ \A name \in DOMAIN response.body.endpoints :
             /\ Route(response.body.endpoints[name]) = "data_lock"
             /\ DataResponse(Get(serve_data, name, None)).status = 200

\* the Snapshots collect() can have produced up to now
Produced ==
    { Collect(f, t, DefaultMaxLoadpoints).value.merge_variables :
        f \in {g \in Fetches : ~Collect(g, 1, DefaultMaxLoadpoints).raised},
        t \in 1..clock }

\* C8: the slot is read and written with the lock held, by one thread at
\* a time; a request reads None or the whole Snapshot of the latest store,
\* answers with what it read, and no 200 carries a Snapshot older than an
\* earlier 200 did.
SlotAccessExclusive ==
    /\ ~(lock_main /\ lock_srv)
    /\ pc \in {"store_write", "store_unlock"} => lock_main
    /\ spc \in {"root_read", "root_unlock", "data_read", "data_unlock"} => lock_srv
    /\ spc = "data_unlock" => data = stored
    /\ data # None => data \in Produced
    /\ DataAnswered /\ response.status = 200 =>
         /\ response.body \in Produced
         /\ response.body.last_updated = observed

\* C8 witness: the server has read a Snapshot and still holds the lock
\* while the main thread waits to store the next one.
SlotAccessExclusiveWitness ==
    /\ spc = "data_unlock"
    /\ lock_srv
    /\ pc = "store_lock"
    /\ data # None
    /\ payload.merge_variables # data

\* absent counts as false
Flag(lp, k) == k \in DOMAIN lp /\ lp[k]

\* C9: derive_status is the five-row table: charging; else connected and
\* enabled with mode pv or minpv; else connected and enabled; else connected
\* and not enabled; else disconnected.
DeriveStatusTable ==
    (call # None /\ call.fn = "derive_status" /\ result # None) =>
        LET ch    == Flag(call.lp, "charging")
            co    == Flag(call.lp, "connected")
            en    == Flag(call.lp, "enabled")
            solar == "mode" \in DOMAIN call.lp /\ call.lp["mode"] \in {"pv", "minpv"}
        IN  /\ ~result.raised
            /\ result.value =
                 CASE ch -> "Charging"
                   [] ~ch /\ co /\ en /\ solar -> "Waiting for solar"
                   [] ~ch /\ co /\ en /\ ~solar -> "Finished"
                   [] ~ch /\ co /\ ~en -> "Connected"
                   [] ~ch /\ ~co -> "Disconnected"

\* C9 witness: charging absent, connected and enabled, mode minpv.
DeriveStatusTableWitness ==
    /\ call # None
    /\ call.fn = "derive_status"
    /\ result # None
    /\ "charging" \notin DOMAIN call.lp
    /\ Flag(call.lp, "connected")
    /\ Flag(call.lp, "enabled")
    /\ Get(call.lp, "mode", "") = "minpv"
    /\ result.value = "Waiting for solar"

\* C10: the Snapshot's loadpoints are the transformed first min(n, m)
\* loadpoints in order (none when min(n, m) is not positive), never more
\* than m of them (than none for a negative m), and loadpoint_count is n.
CollectTruncatesToMax ==
    (call # None /\ call.fn = "collect" /\ result # None) =>
        LET lps == Get(call.state, "loadpoints", << >>)
            n   == Len(lps)
            m   == call.max_loadpoints
            mv  == result.value.merge_variables
        IN  /\ ~result.raised
            /\ mv.loadpoints = [i \in 1..Min(n, m) |-> TransformLoadpoint(lps[i])]
            /\ Len(mv.loadpoints) <= Max(m, 0)
            /\ mv.loadpoint_count = n


\* format_power has returned for the call in `call`
FormatDone == call # None /\ call.fn = "format_power" /\ result # None

\* |value| of the call, 0 for an absent value
Magnitude == IF call.watts = << >> THEN 0 ELSE Abs(call.watts[1])

\* the same call with the value's sign flipped
Mirrored == IF call.watts = << >> THEN call.watts ELSE <<0 - call.watts[1]>>

\* n is an integer nearest to the magnitude q
IsNearest(n, q) == 2 * Abs(Num(n) - q) <= Resolution

IsTie(n, q) == 2 * Abs(Num(n) - q) = Resolution

\* the magnitude q rounded half away from zero: k + 0.5 becomes k + 1
HalfAwayFromZero(q) ==
    CHOOSE n \in 0..(MaxWatts + 1) : IsNearest(n, q) /\ (IsTie(n, q) => Num(n) > q)

\* the magnitude q rounded half to even: k + 0.5 becomes the even one of
\* k and k + 1
HalfToEven(q) ==
    CHOOSE n \in 0..(MaxWatts + 1) : IsNearest(n, q) /\ (IsTie(n, q) => n % 2 = 0)

ShownInWatts == call.unit = "W" \/ (call.unit = "auto" /\ Magnitude < Num(1000))

ShownInKilowatts == call.unit = "kW" \/ (call.unit = "auto" /\ Magnitude >= Num(1000))

\* C11 as claimed: the string depends on |value| and the unit only; in
\* watts it is |value| rounded half away from zero followed by " W"; in
\* kilowatts the suffix is " kW"; a zero or absent value is shown as "0 W".
FormatPowerHalfAway ==
    FormatDone =>
        /\ result.value = FormatPower(Mirrored, call.unit, call.tie_up)
        /\ ShownInWatts =>
             result.value = PowerText(HalfAwayFromZero(Magnitude), << >>, " W")
        /\ ShownInKilowatts => result.value.suffix = " kW"
        /\ (Magnitude = 0 /\ call.unit \in {"auto", "W", "kW"}) =>
             result.value = PowerText(0, << >>, " W")

\* C11 as amended: as claimed, with |value| rounded half to even (k + 0.5
\* is shown as k for an even k and as k + 1 for an odd k), and a zero or
\* absent value shown as "0 W" for the units "W" and "auto" and as "0.0 kW"
\* for the unit "kW".
FormatPowerPolicy ==
    FormatDone =>
        /\ result.value = FormatPower(Mirrored, call.unit, call.tie_up)
        /\ ShownInWatts =>
             result.value = PowerText(HalfToEven(Magnitude), << >>, " W")
        /\ ShownInKilowatts => result.value.suffix = " kW"
        /\ (Magnitude = 0 /\ call.unit \in {"auto", "W"}) =>
             result.value = PowerText(0, << >>, " W")
        /\ (Magnitude = 0 /\ call.unit = "kW") =>
             result.value = PowerText(0, <<0>>, " kW")

\* C11 witness: a negative value whose magnitude is k + 0.5 with k even,
\* shown in watts as k.
FormatPowerPolicyWitness ==
    /\ FormatDone
    /\ call.unit = "auto"
    /\ call.watts # << >>
    /\ call.watts[1] < 0
    /\ IsTie(result.value.whole, Magnitude)
    /\ Num(result.value.whole) < Magnitude
    /\ result.value.suffix = " W"

\* a transformer has returned or raised for the call in `call`
TransformDone(fn) == call # None /\ call.fn = fn /\ result # None

Absent(d, k) == k \notin DOMAIN d

\* the text format_power gives for no power
ZeroPower == FormatPower(NoNumber, call.unit, call.tie_up)

\* transform_energy: absent readings are 0, absent tariffs are None, and
\* the grid power is grid.power, else gridPower, else 0
EnergyDefaults ==
    TransformDone("transform_energy") =>
        LET st == call.state
            e  == result.value
            nested == ~Absent(st, "grid") /\ st["grid"] # JNull
                      /\ ~Absent(st["grid"], "power")
            raw == IF nested THEN OrZero(st["grid"]["power"])
                   ELSE IF ~Absent(st, "gridPower") THEN OrZero(st["gridPower"])
                   ELSE 0
        IN  /\ ~result.raised
            /\ Absent(st, "pvPower") =>
                  e.pv_power = 0 /\ e.pv_power_formatted = ZeroPower
            /\ Absent(st, "homePower") =>
                  e.home_power = 0 /\ e.home_power_formatted = ZeroPower
            /\ Absent(st, "greenShareHome") => e.green_share_home = 0
            /\ Absent(st, "tariffGrid") => e.tariff_grid = NoNumber
            /\ Absent(st, "tariffFeedIn") => e.tariff_feedin = NoNumber
            /\ Absent(st, "tariffPriceHome") => e.tariff_price_home = NoNumber
            /\ e.grid_power = Abs(raw)
            /\ e.grid_import = (raw > 0)
            /\ raw = 0 => e.grid_power_formatted = ZeroPower

\* the battery units with every absent "soc" and "power" set to 0
ZeroFilled(units) ==
    [i \in DOMAIN units |-> units[i] @@ [soc |-> <<0>>, power |-> <<0>>]]

\* transform_battery: no list is "not configured" with zeros, and a unit's
\* absent soc or power counts as 0
BatteryDefaults ==
    TransformDone("transform_battery") =>
        LET st == call.state
            b  == result.value
        IN  /\ ~result.raised
            /\ Absent(st, "battery") =>
                  /\ ~b.configured /\ ~b.charging
                  /\ b.soc = 0 /\ b.power = 0
                  /\ b.power_formatted = ZeroPower
            /\ (~Absent(st, "battery") /\ st["battery"] # JNull) =>
                  result = TransformBattery(
                             [battery |-> JArray(ZeroFilled(st["battery"].items))],
                             call.unit, call.tie_up)

\* transform_loadpoint: every absent field gives its default
LoadpointDefaults ==
    TransformDone("transform_loadpoint") =>
        LET lp == call.lp
            o  == result.value
        IN  /\ ~result.raised
            /\ Absent(lp, "title") => o.title = ""
            /\ Absent(lp, "mode") => o.mode = "off" /\ o.mode_label = "Off"
            /\ Absent(lp, "charging") => ~o.charging
            /\ Absent(lp, "connected") => ~o.connected /\ ~o.vehicle_connected
            /\ Absent(lp, "enabled") => ~o.enabled
            /\ (Absent(lp, "charging") /\ Absent(lp, "connected")) =>
                  o.status = "Disconnected"
            /\ Absent(lp, "chargePower") =>
                  o.charge_power = 0 /\ o.charge_power_formatted = ZeroPower
            /\ Absent(lp, "chargedEnergy") => o.charged_energy_kwh = 0
            /\ Absent(lp, "chargeDuration") => o.charge_duration_formatted = NoDuration
            /\ Absent(lp, "chargeRemainingDuration") =>
                  o.charge_remaining_formatted = NoDuration
            /\ Absent(lp, "sessionSolarPercentage") => o.session_solar_pct = 0
            /\ Absent(lp, "sessionPrice") => o.session_price = NoNumber
            /\ Absent(lp, "vehicleTitle") =>
                  o.vehicle_title = Get(lp, "vehicleName", << >>)
            /\ Absent(lp, "vehicleName") =>
                  o.vehicle_title = Get(lp, "vehicleTitle", << >>)
            /\ Absent(lp, "vehicleSoc") => o.vehicle_soc = 0
            /\ Absent(lp, "vehicleRange") => o.vehicle_range = NoNumber
            /\ Absent(lp, "effectiveLimitSoc") => o.limit_soc = NoNumber
            /\ Absent(lp, "planActive") => ~o.plan_active
            /\ Absent(lp, "planTime") => o.plan_time = << >>
            /\ Absent(lp, "phasesActive") => o.phases_active = NoNumber

\* "statistics", or one of its periods, is present and null
NullStatistics(st) ==
    /\ ~Absent(st, "statistics")
    /\ \/ st["statistics"] = JNull
       \/ \E p \in {"30d", "total"} :
            ~Absent(st["statistics"], p) /\ st["statistics"][p] = JNull

\* transform_statistics: an error only for a null object, never for an
\* absent one; an absent field, period or statistics object gives None
StatisticsDefaults ==
    TransformDone("transform_statistics") =>
        LET st == call.state
        IN  /\ result.raised <=> NullStatistics(st)
            /\ ~result.raised =>
                  /\ DOMAIN result.value = {"30d", "total"}
                  /\ \A p \in {"30d", "total"} :
                       LET period == Get(Get(st, "statistics", EmptyDict), p, EmptyDict)
                           o      == result.value[p]
                       IN  /\ Absent(period, "chargedKWh") => o.charged_kwh = NoNumber
                           /\ Absent(period, "solarPercentage") => o.solar_pct = NoNumber
                           /\ Absent(period, "avgPrice") => o.avg_price = NoNumber

\* C12: no transformer fails because a field is absent: transform_energy,
\* transform_battery and transform_loadpoint always complete, and
\* transform_statistics completes unless an object is null; absent numeric
\* inputs give 0 (flags false, texts empty, pass-through fields None), the
\* grid power is grid.power, else gridPower, else 0, and absent statistics
\* fields give None, not 0.
AbsentFieldsDefault ==
    /\ EnergyDefaults
    /\ BatteryDefaults
    /\ LoadpointDefaults
    /\ StatisticsDefaults

\* transform_energy has returned for a RawState without pvPower whose grid
\* object has no power: the flat gridPower is used.
AbsentFieldsDefaultWitness ==
    /\ TransformDone("transform_energy")
    /\ Absent(call.state, "pvPower")
    /\ ~Absent(call.state, "grid") /\ call.state["grid"] = EmptyDict
    /\ ~Absent(call.state, "gridPower") /\ call.state["gridPower"] = <<0 - Num(300)>>
    /\ ~result.raised
    /\ result.value.pv_power = 0
    /\ result.value.grid_power = Num(300)
    /\ ~result.value.grid_import

===========================================================================
